---- MODULE Spec2Model ----
(***************************************************************************)
(* A model of opencode-chat (src/chat.py): discovery of a running server,  *)
(* supervised start of an own server process, process cleanup, the REPL    *)
(* with its slash-commands, sending a message, switching the model and     *)
(* rendering a response.                                                   *)
(*                                                                         *)
(* The program is single-threaded.  Its position is pc:                    *)
(*   "discover" find_opencode_port is probing the candidates               *)
(*   "start"    every candidate failed, start_opencode is about to spawn   *)
(*   "poll"     start_opencode is in its health-poll loop                  *)
(*   "validate" ensure_opencode is about to set and check the default model*)
(*   "create"   main is about to create the first session                  *)
(*   "prompt"   repl is reading the next line                              *)
(*   "atexit"   the interpreter is ending and runs the exit hooks          *)
(*   "done"     the client process has ended                               *)
(* Remote calls, the operating system and the user are the environment:    *)
(* every outcome they can produce is a nondeterministic choice.            *)
(***************************************************************************)
EXTENDS Integers, Sequences, FiniteSets, TLC

VARIABLES
    pc,            \* position of the program
    reach,         \* environment: the endpoints that answer session.list()
    cand,          \* find_opencode_port: index of the next candidate
    probes,        \* log: the endpoints probed by find_opencode_port, in order
    found,         \* ensure_opencode: what find_opencode_port returned
    client,        \* global client: the endpoint it talks to, NoClient if None
    oc_process,    \* global oc_process: "None" or "proc"
    procAlive,     \* environment: the spawned server process is running
    atexitReg,     \* atexit.register(cleanup_opencode) has been executed
    spawns,        \* log: server processes subprocess.Popen has created
    pollI,         \* start_opencode: completed iterations of the poll loop
    pollLog,       \* log: "sleep" and "probe" events of the poll loop
    cleanupCalls,  \* log: invocations of cleanup_opencode
    termReqs,      \* log: oc_process.terminate() calls
    killReqs,      \* log: oc_process.kill() calls
    exitCode,      \* exit status of the client, Running while it runs
    exitCause,     \* why the client is ending
    uncaught,      \* the exception that reached top level, "none" if none
    provider_id,   \* global provider_id
    model_id,      \* global model_id
    session_id,    \* global session_id, NoSession if None
    nextSid,       \* environment: sessions the service has created so far
    prior,         \* environment: the last assistant message the current
                   \* session holds from the turns made so far, or NoMsg
    catalog,       \* the catalog last returned by client.app.providers()
    last,          \* log: what the last operation did (see NoOp)
    msg,           \* the message the last display_response dispatched, or NoMsg
    out,           \* the output blocks of the last display_response
    arg,           \* switch_model under test: its argument spec
    pending,       \* switch_model under test: the providers response to come
    resolved,      \* switch_model under test: new_provider and new_model
    line,          \* repl under test: the line console.input returned
    routed,        \* repl under test: the handler the line went to
    payload,       \* a renderer under test: the string it is given
    rendered       \* a renderer under test: the string it printed

vars == <<pc, reach, cand, probes, client, oc_process, procAlive, atexitReg, spawns,
          pollI, pollLog, cleanupCalls, termReqs, killReqs, exitCode,
          exitCause, uncaught, provider_id, model_id, session_id, nextSid, prior,
          catalog, last, msg, out, found, arg, pending, resolved, line,
          routed, payload, rendered>>

startVars == <<reach, cand, probes, found, pollI, pollLog, spawns>>
pureVars == <<arg, pending, resolved, line, routed, payload, rendered>>
procVars == <<oc_process, procAlive, cleanupCalls, termReqs, killReqs>>
exitVars == <<exitCode, exitCause, uncaught>>
modelVars == <<provider_id, model_id, catalog>>
sessVars == <<session_id, nextSid, prior>>
showVars == <<msg, out>>

-----------------------------------------------------------------------------
(* Section A: globals and discovery                                        *)

SERVE_PORT == 54321

\* The endpoint of Opencode(base_url=os.environ.get("OPENCODE_BASE_URL")):
\* the environment-configured endpoint (the SDK's default when it is unset).
BaseUrl == 0

\* for port in [SERVE_PORT, 4096, 3000, 8080]
PortList == <<SERVE_PORT, 4096, 3000, 8080>>

\* Mutant of Candidates: the well-known ports first, the configured endpoint
\* last.
CandidatesPortsFirst == PortList \o <<BaseUrl>>

\* The endpoints find_opencode_port tries, in the order it tries them.
Candidates == <<BaseUrl>> \o PortList

Endpoints == {Candidates[i] : i \in 1..Len(Candidates)}

NoClient == -1
NoSession == 0
Running == -1

\* Mutant of ProbeOk: a probe that fails whatever the endpoint does.
ProbeDeaf(e) == FALSE

\* test_client.session.list() returns without raising.
ProbeOk(e) == e \in reach

\* One iteration of find_opencode_port: probe the next candidate; the first
\* that answers is returned (ensure_opencode stores it in client); when the
\* last one fails too the function returns None and ensure_opencode calls
\* start_opencode.
Probe ==
    /\ pc = "discover"
    /\ cand <= Len(Candidates)
    /\ LET e == Candidates[cand] IN
       /\ probes' = Append(probes, e)
       /\ IF ProbeOk(e)
          THEN /\ found' = e
               /\ client' = e
               /\ pc' = "validate"
               /\ cand' = cand
          ELSE /\ found' = NoClient
               /\ client' = client
               /\ cand' = cand + 1
               /\ pc' = IF cand = Len(Candidates) THEN "start" ELSE "discover"
    /\ UNCHANGED <<pureVars, reach, pollI, pollLog, spawns, procVars, atexitReg,
                   exitVars, modelVars, sessVars, last, showVars>>

-----------------------------------------------------------------------------
(* Section B: process management                                           *)

\* Mutant of PollLimit: a loop that is one iteration short.
PollLimitShort == 30 - 1

\* for i in range(30)
PollLimit == 30

\* What the operating system can answer to cleanup_opencode's calls:
\*   t  oc_process.terminate(): "ok", or "raise" (an Exception)
\*   w  oc_process.wait(timeout=5): "exit" (the process ended in time),
\*      "timeout" (TimeoutExpired), or "raise" (another Exception)
\*   k  oc_process.kill(); oc_process.wait(): "ok", or "raise" (either raises)
CleanupOutcomes ==
    { [t |-> "raise", w |-> "na",      k |-> "na"],
      [t |-> "ok",    w |-> "exit",    k |-> "na"],
      [t |-> "ok",    w |-> "raise",   k |-> "na"],
      [t |-> "ok",    w |-> "timeout", k |-> "ok"],
      [t |-> "ok",    w |-> "timeout", k |-> "raise"] }

\* Mutant of cleanup_opencode: no check that a process is owned; the server
\* the client talks to is asked to terminate.
cleanup_opencode_unguarded(oc, alive, o) ==
    IF o.t = "raise"
    THEN [oc |-> "None", alive |-> alive, term |-> 1, kill |-> 0, raised |-> FALSE]
    ELSE IF o.w = "exit"
    THEN [oc |-> "None", alive |-> FALSE, term |-> 1, kill |-> 0, raised |-> FALSE]
    ELSE IF o.w = "raise"
    THEN [oc |-> "None", alive |-> alive, term |-> 1, kill |-> 0, raised |-> FALSE]
    ELSE IF o.k = "ok"
    THEN [oc |-> "None", alive |-> FALSE, term |-> 1, kill |-> 1, raised |-> FALSE]
    ELSE [oc |-> oc, alive |-> alive, term |-> 1, kill |-> 1, raised |-> TRUE]

\* cleanup_opencode on process handle oc (alive: the process runs) under the
\* outcome o: the handle and the process afterwards, the terminate and kill
\* calls made, and whether the function raised.  An exception raised inside
\* the "except subprocess.TimeoutExpired" handler is not caught by the
\* "except Exception" clause beside it: it leaves the function before
\* "oc_process = None".
cleanup_opencode(oc, alive, o) ==
    IF oc = "None"
    THEN [oc |-> "None", alive |-> alive, term |-> 0, kill |-> 0, raised |-> FALSE]
    ELSE IF o.t = "raise"
    THEN [oc |-> "None", alive |-> alive, term |-> 1, kill |-> 0, raised |-> FALSE]
    ELSE IF o.w = "exit"
    THEN [oc |-> "None", alive |-> FALSE, term |-> 1, kill |-> 0, raised |-> FALSE]
    ELSE IF o.w = "raise"
    THEN [oc |-> "None", alive |-> alive, term |-> 1, kill |-> 0, raised |-> FALSE]
    ELSE IF o.k = "ok"
    THEN [oc |-> "None", alive |-> FALSE, term |-> 1, kill |-> 1, raised |-> FALSE]
    ELSE [oc |-> oc, alive |-> alive, term |-> 1, kill |-> 1, raised |-> TRUE]

\* A call of cleanup_opencode in the current state: its effect on the globals
\* and the logs.
CallCleanup(o) ==
    LET r == cleanup_opencode(oc_process, procAlive, o) IN
    /\ oc_process' = r.oc
    /\ procAlive' = r.alive
    /\ termReqs' = termReqs + r.term
    /\ killReqs' = killReqs + r.kill
    /\ cleanupCalls' = cleanupCalls + 1

CleanupRaises(o) == cleanup_opencode(oc_process, procAlive, o).raised

\* The interpreter leaves the program: sys.exit(code), the end of main, or
\* an exception nobody caught (exc, status 1; 130 for a KeyboardInterrupt).
Leave(code, cause, exc) ==
    /\ pc' = "atexit"
    /\ exitCode' = code
    /\ exitCause' = cause
    /\ uncaught' = exc

\* start_opencode up to the poll loop: Popen raises FileNotFoundError and the
\* client exits with status 1, or the process is spawned, cleanup_opencode is
\* registered as an exit hook and client points at SERVE_PORT.
Spawn ==
    /\ pc = "start"
    /\ \E popen \in {"ok", "missing"} :
        IF popen = "missing"
        THEN /\ Leave(1, "no_executable", "none")
             /\ UNCHANGED <<oc_process, procAlive, atexitReg, client, spawns>>
        ELSE /\ oc_process' = "proc"
             /\ procAlive' = TRUE
             /\ spawns' = spawns + 1
             /\ atexitReg' = TRUE
             /\ client' = SERVE_PORT
             /\ pc' = "poll"
             /\ UNCHANGED exitVars
    /\ UNCHANGED <<pureVars, reach, cand, probes, found, pollI, pollLog,
                   cleanupCalls, termReqs, killReqs, modelVars, sessVars, last,
                   showVars>>

\* One iteration of the poll loop: time.sleep(0.5), then client.session.list();
\* on success start_opencode returns (its locals are gone).
Poll ==
    /\ pc = "poll"
    /\ pollI < PollLimit
    /\ \E healthy \in BOOLEAN :
        IF healthy
        THEN /\ pc' = "validate"
             /\ pollI' = 0
             /\ pollLog' = <<>>
        ELSE /\ pc' = "poll"
             /\ pollI' = pollI + 1
             /\ pollLog' = pollLog \o <<"sleep", "probe">>
    /\ UNCHANGED <<pureVars, reach, cand, probes, found, spawns, client, procVars,
                   atexitReg, exitVars, modelVars, sessVars, last, showVars>>

\* The poll loop ran out: cleanup_opencode(), then sys.exit(1).  When cleanup
\* raises, the exception replaces the sys.exit (status 1 all the same).
PollTimeout ==
    /\ pc = "poll"
    /\ pollI = PollLimit
    /\ \E o \in CleanupOutcomes :
        /\ CallCleanup(o)
        /\ Leave(1, "health_timeout",
                 IF CleanupRaises(o) THEN "OSError" ELSE "none")
    /\ UNCHANGED <<pureVars, startVars, client, atexitReg, modelVars, sessVars, last,
                   showVars>>

\* The interpreter ends: the exit hook registered by start_opencode, if any,
\* runs cleanup_opencode; what it raises is printed and dropped.
AtExit ==
    /\ pc = "atexit"
    /\ pc' = "done"
    /\ IF atexitReg
       THEN \E o \in CleanupOutcomes : CallCleanup(o)
       ELSE UNCHANGED procVars
    /\ UNCHANGED <<pureVars, startVars, client, atexitReg, exitVars, modelVars, sessVars,
                   last, showVars>>

-----------------------------------------------------------------------------
(* Strings are sequences of characters.  The alphabet is cut down to what  *)
(* the code distinguishes: "/" (the separator of a model spec) and the     *)
(* letters "a" and "b".  Provider ids and model ids are separate name      *)
(* spaces over the same strings: <<"a">> and <<"b">> are the two provider  *)
(* ids and also the two model ids.  The provider id "opencode" is written  *)
(* <<"a">> and the model id "kimi-k2.5-free" is written <<"b">>.           *)

\* Python's None in a string-valued global.
None == <<"None">>

DEFAULT_PROVIDER == <<"a">>
DEFAULT_MODEL == <<"b">>

\* c in s
Contains(s, c) == \E i \in 1..Len(s) : s[i] = c

\* s.split(c, 1) for a string s that contains c: the text before the first c
\* and the text after it.
SplitFirst(s, c) ==
    LET i == CHOOSE j \in 1..Len(s) :
                 /\ s[j] = c
                 /\ \A h \in 1..(j - 1) : s[h] # c
    IN  <<SubSeq(s, 1, i - 1), SubSeq(s, i + 1, Len(s))>>

\* not s, for s a string or None
Falsy(s) == s = None \/ s = <<>>

-----------------------------------------------------------------------------
(* Model registry.  A providers response is [ok, providers]: ok is FALSE   *)
(* when client.app.providers() raised; providers is the catalog, a         *)
(* sequence of [id, models] in the order the service returned them.        *)

FetchFailed == [ok |-> FALSE, providers |-> <<>>]

\* known = {p.id: p for p in providers_resp.providers}: the ids
KnownIds(providers) == {providers[i].id : i \in 1..Len(providers)}

\* known[pid].models (a later entry with the same id replaces an earlier one)
KnownModels(providers, pid) ==
    LET I == {i \in 1..Len(providers) : providers[i].id = pid}
        i == CHOOSE j \in I : \A h \in I : h <= j
    IN  providers[i].models

\* provider_id in known and model_id in known[provider_id].models
InCatalog(providers, pid, mid) ==
    /\ pid \in KnownIds(providers)
    /\ mid \in KnownModels(providers, pid)

\* Mutant of FirstProviderWith: a loop without its break, which keeps the
\* last provider that has the model.
LastProviderWith(spec, providers) ==
    LET I == {i \in 1..Len(providers) : spec \in providers[i].models}
    IN  IF I = {} THEN None
        ELSE providers[CHOOSE j \in I : \A h \in I : h <= j].id

\* The search loop of switch_model: the id of the first provider, in catalog
\* order, whose models contain spec; None when there is none.
FirstProviderWith(spec, providers) ==
    LET I == {i \in 1..Len(providers) : spec \in providers[i].models}
    IN  IF I = {} THEN None
        ELSE providers[CHOOSE j \in I : \A h \in I : j <= h].id

\* Lines 485-498 of switch_model: the provider and the model a spec names.
\* found is FALSE when the bare id is in no provider ("not new_provider").
Resolve(spec, providers) ==
    IF Contains(spec, "/")
    THEN [provider |-> SplitFirst(spec, "/")[1],
          model |-> SplitFirst(spec, "/")[2],
          found |-> TRUE]
    ELSE [provider |-> FirstProviderWith(spec, providers),
          model |-> spec,
          found |-> ~Falsy(FirstProviderWith(spec, providers))]

\* new_provider and new_model before switch_model reaches line 485.
NotResolved == [provider |-> None, model |-> None, found |-> FALSE]

\* Mutant of switch_model: the provider is assigned as soon as it is known
\* to exist, before the model is looked up under it.
switch_model_eager(spec, resp, prov, mod) ==
    IF ~resp.ok
    THEN [provider |-> prov, model |-> mod, note |-> "error"]
    ELSE LET r == Resolve(spec, resp.providers) IN
         IF ~r.found
         THEN [provider |-> prov, model |-> mod, note |-> "model_not_found"]
         ELSE IF r.provider \notin KnownIds(resp.providers)
         THEN [provider |-> prov, model |-> mod, note |-> "provider_not_found"]
         ELSE IF r.model \notin KnownModels(resp.providers, r.provider)
         THEN [provider |-> r.provider, model |-> mod,
               note |-> "model_not_in_provider"]
         ELSE [provider |-> r.provider, model |-> r.model, note |-> "switched"]

\* switch_model(spec) with providers response resp, from the active pair
\* (prov, mod): the active pair afterwards and what was printed.
switch_model(spec, resp, prov, mod) ==
    IF ~resp.ok
    THEN [provider |-> prov, model |-> mod, note |-> "error"]
    ELSE LET r == Resolve(spec, resp.providers) IN
         IF ~r.found
         THEN [provider |-> prov, model |-> mod, note |-> "model_not_found"]
         ELSE IF r.provider \notin KnownIds(resp.providers)
         THEN [provider |-> prov, model |-> mod, note |-> "provider_not_found"]
         ELSE IF r.model \notin KnownModels(resp.providers, r.provider)
         THEN [provider |-> prov, model |-> mod, note |-> "model_not_in_provider"]
         ELSE [provider |-> r.provider, model |-> r.model, note |-> "switched"]

-----------------------------------------------------------------------------
(* The log of the last operation.                                          *)
(*   op      the operation                                                 *)
(*   rpc     its first remote call: "none", "ok", "fail"                   *)
(*   note    what it printed                                               *)
(*   chats, aborts, renders   the session.chat, session.abort and          *)
(*           display_response calls it made                                *)
(*   intr    it caught a KeyboardInterrupt                                 *)
(*   ab      the outcome of the abort call of the interrupt handler        *)
(*   sid     the session its chat or abort call named                      *)
(*   prov, mod   the pair its chat call carried                            *)

Op(op, rpc, note) ==
    [op |-> op, rpc |-> rpc, note |-> note, chats |-> 0, aborts |-> 0,
     renders |-> 0, intr |-> FALSE, ab |-> "none", sid |-> NoSession,
     prov |-> None, mod |-> None]

NoOp == Op("none", "none", "none")

-----------------------------------------------------------------------------
(* Section C: display rendering.                                           *)
(* A part is [kind, empty, broken]: empty says that a text or reasoning    *)
(* part carries no text; broken says that the payload lacks what the       *)
(* renderer dereferences (part.state of a tool part, part.tokens of a      *)
(* step-finish part), so that the renderer raises.  A message is           *)
(* [role, err, parts]: err says that info.error is set.  A messages        *)
(* response is [ok, messages]: ok is FALSE when session.messages raised.   *)

P(kind, empty, broken) == [kind |-> kind, empty |-> empty, broken |-> broken]

PartValues ==
    { P("text", FALSE, FALSE), P("text", TRUE, FALSE),
      P("tool", FALSE, FALSE), P("tool", FALSE, TRUE),
      P("step-start", FALSE, FALSE),
      P("step-finish", FALSE, FALSE), P("step-finish", FALSE, TRUE),
      P("reasoning", FALSE, FALSE), P("reasoning", TRUE, FALSE),
      P("file", FALSE, FALSE), P("patch", FALSE, FALSE) }

Block(idx, block) == [idx |-> idx, block |-> block]

\* The renderers of the parts: the block each prints for the part at position
\* idx, "nothing" when it prints none, "raise" when it raises.
render_text(part) == IF part.empty THEN "nothing" ELSE "markdown"

render_tool(part) == IF part.broken THEN "raise" ELSE "tool_panel"

render_step_start(part) == "step_started"

render_step_finish(part) == IF part.broken THEN "raise" ELSE "step_finished"

render_reasoning(part) == IF part.empty THEN "nothing" ELSE "thinking_panel"

\* The dispatch on part.type in display_response.
Dispatch(part) ==
    IF part.kind = "text" THEN render_text(part)
    ELSE IF part.kind = "tool" THEN render_tool(part)
    ELSE IF part.kind = "step-start" THEN render_step_start(part)
    ELSE IF part.kind = "step-finish" THEN render_step_finish(part)
    ELSE IF part.kind = "reasoning" THEN render_reasoning(part)
    ELSE "kind_line"

\* "for part in last_assistant.parts" from position i on, acc being the
\* blocks printed so far: the loop ends at the first part whose renderer
\* raises, and the exception leaves display_response.
RECURSIVE RenderParts(_, _, _)
RenderParts(parts, i, acc) ==
    IF i > Len(parts)
    THEN [out |-> acc, raised |-> FALSE]
    ELSE LET b == Dispatch(parts[i]) IN
         IF b = "raise" THEN [out |-> acc, raised |-> TRUE]
         ELSE IF b = "nothing" THEN RenderParts(parts, i + 1, acc)
         ELSE RenderParts(parts, i + 1, Append(acc, Block(i, b)))

NoMsg == [role |-> "none", err |-> FALSE, parts |-> <<>>]

\* "for msg in reversed(messages)": the last message of role assistant,
\* NoMsg when there is none.
LastAssistant(messages) ==
    LET I == {i \in 1..Len(messages) : messages[i].role = "assistant"}
    IN  IF I = {} THEN NoMsg
        ELSE messages[CHOOSE j \in I : \A h \in I : h <= j]

\* display_response on the messages response resp: the message dispatched,
\* the blocks printed, and whether the function raised.
display_response(resp) ==
    IF ~resp.ok
    THEN [msg |-> NoMsg, out |-> <<Block(0, "fetch_error")>>, raised |-> FALSE]
    ELSE LET m == LastAssistant(resp.messages) IN
         IF m = NoMsg
         THEN [msg |-> NoMsg, out |-> <<Block(0, "no_assistant")>>,
               raised |-> FALSE]
         ELSE LET head == IF m.err THEN <<Block(0, "error_panel")>> ELSE <<>>
                  r == RenderParts(m.parts, 1, head)
              IN  [msg |-> m, out |-> r.out, raised |-> r.raised]

\* show_history on the messages response resp: what it printed, and whether
\* it raised (part.state.status of an assistant tool part without state).
show_history(resp) ==
    IF ~resp.ok THEN [note |-> "error", raised |-> FALSE]
    ELSE IF resp.messages = <<>> THEN [note |-> "no_messages", raised |-> FALSE]
    ELSE IF \E i \in 1..Len(resp.messages) :
               /\ resp.messages[i].role = "assistant"
               /\ \E j \in 1..Len(resp.messages[i].parts) :
                      /\ resp.messages[i].parts[j].kind = "tool"
                      /\ resp.messages[i].parts[j].broken
    THEN [note |-> "history_cut", raised |-> TRUE]
    ELSE [note |-> "history", raised |-> FALSE]

-----------------------------------------------------------------------------
(* The inputs the environment supplies.                                    *)

\* Bounds of the model.
MaxSessions == 3     \* sessions the service creates in one run
MaxProviders == 2    \* providers in a catalog
MaxSpecLen == 3      \* characters of the argument of /model

Chars == {"a", "b", "/"}
ProviderIds == {<<"a">>, <<"b">>}
ModelIds == {<<"a">>, <<"b">>}

SeqsUpTo(S, n) == UNION {[1..k -> S] : k \in 0..n}

\* The arguments of /model: raw[7:].strip() of a stripped line is not empty.
AllSpecs == SeqsUpTo(Chars, MaxSpecLen) \ {<<>>}

Providers == {[id |-> i, models |-> m] : i \in ProviderIds, m \in SUBSET ModelIds}

\* Catalogs: the ids of the providers of a catalog differ.
AllCatalogs ==
    {c \in SeqsUpTo(Providers, MaxProviders) :
        \A i, j \in 1..Len(c) : i # j => c[i].id # c[j].id}

AllProviderResponses ==
    {FetchFailed} \cup {[ok |-> TRUE, providers |-> c] : c \in AllCatalogs}

\* The smaller choice the model of the whole program draws from.
MainSpecs == {<<"a">>, <<"b", "/", "a">>, <<"a", "/", "a">>}

MainCatalogs ==
    { <<[id |-> <<"a">>, models |-> {<<"b">>}],
        [id |-> <<"b">>, models |-> {<<"a">>}]>>,
      <<[id |-> <<"b">>, models |-> {<<"a">>, <<"b">>}]>> }

MainProviderResponses ==
    {FetchFailed} \cup {[ok |-> TRUE, providers |-> c] : c \in MainCatalogs}

UserMsg == [role |-> "user", err |-> FALSE, parts |-> <<P("text", FALSE, FALSE)>>]

Assistant(err, parts) == [role |-> "assistant", err |-> err, parts |-> parts]

MainMessages ==
    { Assistant(FALSE, <<P("step-start", FALSE, FALSE), P("text", FALSE, FALSE),
                         P("step-finish", FALSE, FALSE)>>),
      Assistant(FALSE, <<P("tool", FALSE, FALSE), P("file", FALSE, FALSE),
                         P("reasoning", FALSE, FALSE)>>),
      Assistant(FALSE, <<P("step-finish", FALSE, TRUE), P("text", FALSE, FALSE)>>),
      Assistant(FALSE, <<P("tool", FALSE, TRUE)>>),
      Assistant(TRUE, <<P("text", TRUE, FALSE)>>) }

MessagesFailed == [ok |-> FALSE, messages |-> <<>>]

\* The answers of session.messages: a failure, or the messages of the
\* session, whose last assistant message (if any) may be followed by the
\* user message of a turn that has no answer yet.
ResponsesOver(M) ==
    {MessagesFailed}
    \cup {[ok |-> TRUE, messages |-> l] : l \in {<<>>, <<UserMsg>>}}
    \cup {[ok |-> TRUE, messages |-> <<UserMsg, a>>] : a \in M}
    \cup {[ok |-> TRUE, messages |-> <<a, UserMsg>>] : a \in M}

MainMessageResponses == ResponsesOver(MainMessages)

\* The reachability of the endpoints the model of the whole program draws from.
MainReach == { {}, {BaseUrl}, {4096, 8080} }

-----------------------------------------------------------------------------
(* ensure_opencode after the connection is made, and create_session        *)

\* Mutant of Validate: a default pair the catalog does not confirm is fatal.
ValidateStrict ==
    /\ pc = "validate"
    /\ provider_id' = DEFAULT_PROVIDER
    /\ model_id' = DEFAULT_MODEL
    /\ \E resp \in MainProviderResponses :
        /\ catalog' = resp
        /\ IF resp.ok /\ InCatalog(resp.providers, DEFAULT_PROVIDER, DEFAULT_MODEL)
           THEN /\ last' = Op("validate", "ok", "using")
                /\ pc' = "create"
                /\ UNCHANGED exitVars
           ELSE /\ last' = Op("validate", IF resp.ok THEN "ok" ELSE "fail", "fatal")
                /\ Leave(1, "model_invalid", "none")
    /\ UNCHANGED <<pureVars, startVars, client, procVars, atexitReg, sessVars,
                   showVars>>

\* ensure_opencode, lines 121-136: the hardcoded default becomes the active
\* pair; the catalog is only consulted for the message printed.
Validate ==
    /\ pc = "validate"
    /\ provider_id' = DEFAULT_PROVIDER
    /\ model_id' = DEFAULT_MODEL
    /\ \E resp \in MainProviderResponses :
        /\ catalog' = resp
        /\ last' = Op("validate",
                      IF resp.ok THEN "ok" ELSE "fail",
                      IF ~resp.ok THEN "could_not_verify"
                      ELSE IF InCatalog(resp.providers, DEFAULT_PROVIDER, DEFAULT_MODEL)
                           THEN "using" ELSE "warning")
    /\ pc' = "create"
    /\ UNCHANGED <<pureVars, startVars, client, procVars, atexitReg, exitVars, sessVars,
                   showVars>>

\* Mutant of create_session: the id of the session created is not stored.
create_session_unstored(op, next) ==
    \/ /\ nextSid < MaxSessions
       /\ nextSid' = nextSid + 1
       /\ session_id' = session_id
       /\ prior' = NoMsg
       /\ last' = Op(op, "ok", "session")
       /\ pc' = next
       /\ UNCHANGED exitVars
    \/ /\ last' = Op(op, "fail", "error_creating_session")
       /\ Leave(1, "session_create", "none")
       /\ UNCHANGED sessVars

\* create_session called as operation op from a position that continues at
\* next: the service returns a new session, which becomes current, or the
\* call raises and the client exits with status 1.
create_session(op, next) ==
    \/ /\ nextSid < MaxSessions
       /\ nextSid' = nextSid + 1
       /\ session_id' = nextSid + 1
       /\ prior' = NoMsg
       /\ last' = Op(op, "ok", "session")
       /\ pc' = next
       /\ UNCHANGED exitVars
    \/ /\ last' = Op(op, "fail", "error_creating_session")
       /\ Leave(1, "session_create", "none")
       /\ UNCHANGED sessVars

\* main, line 566
CreateFirst ==
    /\ pc = "create"
    /\ create_session("create", "prompt")
    /\ UNCHANGED <<pureVars, startVars, client, procVars, atexitReg, modelVars, showVars>>

-----------------------------------------------------------------------------
(* Section D: REPL and commands.  The turn of the loop that runs a handler  *)
(* is written once (SendTurn, QuitTurn, ...) and used by every             *)
(* specification: the action of the whole program adds that the strings    *)
(* of the single-function specifications stay as they are.                 *)

\* What session.chat can do: return, raise APIConnectionError, raise
\* APIStatusError, raise another Exception, or be cut by a KeyboardInterrupt.
ChatOutcomes == {"ok", "conn", "status", "other", "intr"}

\* send_message.  chat is the outcome of session.chat; rintr says that a
\* KeyboardInterrupt arrives during the display_response that follows a
\* returned chat; ab is the outcome of session.abort in the interrupt handler;
\* resp is the messages response of the display_response that ends the send.
\* The result: what was printed, the calls made, the message dispatched and
\* the blocks printed by the last display_response, and whether send_message
\* raised.  What display_response raises in the try body is caught by
\* "except Exception"; what it raises in the "except KeyboardInterrupt"
\* handler is caught by nothing.
send_message(chat, rintr, ab, resp) ==
    LET d == display_response(resp) IN
    IF chat = "intr" \/ (chat = "ok" /\ rintr)
    THEN [rpc |-> chat, note |-> "aborting", chats |-> 1, aborts |-> 1,
          renders |-> IF chat = "ok" THEN 2 ELSE 1, intr |-> TRUE, ab |-> ab,
          msg |-> d.msg, out |-> d.out, raised |-> d.raised]
    ELSE IF chat = "ok"
    THEN [rpc |-> "ok", note |-> IF d.raised THEN "error" ELSE "rendered",
          chats |-> 1, aborts |-> 0, renders |-> 1, intr |-> FALSE,
          ab |-> "none", msg |-> d.msg, out |-> d.out, raised |-> FALSE]
    ELSE [rpc |-> "fail",
          note |-> IF chat = "conn" THEN "lost_connection"
                   ELSE IF chat = "status" THEN "api_error" ELSE "error",
          chats |-> 1, aborts |-> 0, renders |-> 0, intr |-> FALSE,
          ab |-> "none", msg |-> NoMsg, out |-> <<>>, raised |-> FALSE]

\* The loop of repl goes on with the next line.
Stay(l) ==
    /\ pc' = "prompt"
    /\ last' = l
    /\ msg' = NoMsg
    /\ out' = <<>>
    /\ UNCHANGED exitVars

\* A message of the session, marked with the turn that produced it: "this"
\* for the turn of the send_message under way, "earlier" otherwise.
Tagged(m, t) == [role |-> m.role, err |-> m.err, parts |-> m.parts, turn |-> t]

\* What the chat turn of a send can add to the session: nothing (the call
\* was cut or failed before the service recorded the turn), the user message
\* alone, or the user message and the assistant message that answers it.
TurnOutcomes ==
    {<<>>, <<UserMsg>>} \cup {<<UserMsg, a>> : a \in MainMessages}

\* client.session.messages(session_id) after that turn: the messages of the
\* earlier turns (before is the last assistant message among them), then
\* the messages the turn added.
SessionMessages(before, added) ==
    [ok |-> TRUE,
     messages |->
        (IF before = NoMsg THEN <<>>
         ELSE <<Tagged(UserMsg, "earlier"), Tagged(before, "earlier")>>)
        \o [i \in 1..Len(added) |-> Tagged(added[i], "this")]]

\* Mutant of ChatCall: the chat call carries the default pair, not the
\* active one.
ChatCallDefaults(sid, prov, mod) ==
    [sid |-> sid, prov |-> DEFAULT_PROVIDER, mod |-> DEFAULT_MODEL]

\* The arguments of client.session.chat(session_id, model_id=model_id,
\* provider_id=provider_id, ...), the globals being sid, prov and mod.
ChatCall(sid, prov, mod) == [sid |-> sid, prov |-> prov, mod |-> mod]

\* A line that is not a command: send_message(text).  A chat call that
\* returns has been answered by the service; display_response fetches the
\* messages of the session again (fetched: the call returns).
SendTurn ==
    /\ pc = "prompt"
    /\ \E chat \in ChatOutcomes, rintr \in BOOLEAN, ab \in {"none", "ok", "fail"},
          added \in TurnOutcomes, fetched \in BOOLEAN :
        /\ chat # "ok" => ~rintr
        /\ (ab # "none") <=> (chat = "intr" \/ rintr)
        /\ chat = "ok" => Len(added) = 2
        /\ chat \in {"conn", "status", "other"} => ~fetched
        /\ LET resp == IF fetched THEN SessionMessages(prior, added)
                       ELSE MessagesFailed
               r == send_message(chat, rintr, ab, resp)
               c == ChatCall(session_id, provider_id, model_id)
           IN  /\ last' = [Op("send", r.rpc, r.note) EXCEPT
                              !.chats = r.chats, !.aborts = r.aborts,
                              !.renders = r.renders, !.intr = r.intr, !.ab = r.ab,
                              !.sid = c.sid, !.prov = c.prov, !.mod = c.mod]
               /\ msg' = r.msg
               /\ out' = r.out
               /\ IF r.raised
                  THEN Leave(1, "unhandled", "AttributeError")
                  ELSE pc' = "prompt" /\ UNCHANGED exitVars
        /\ prior' = IF Len(added) = 2 THEN added[2] ELSE prior
    /\ UNCHANGED <<startVars, client, procVars, atexitReg, modelVars,
                   session_id, nextSid>>

Send == SendTurn /\ UNCHANGED pureVars

\* /quit and /exit: cleanup_opencode(), then sys.exit(0); when cleanup raises,
\* the exception takes the place of the sys.exit.
QuitTurn ==
    /\ pc = "prompt"
    /\ \E o \in CleanupOutcomes :
        /\ CallCleanup(o)
        /\ IF CleanupRaises(o)
           THEN Leave(1, "quit", "OSError")
           ELSE Leave(0, "quit", "none")
    /\ last' = Op("quit", "none", "goodbye")
    /\ msg' = NoMsg
    /\ out' = <<>>
    /\ UNCHANGED <<startVars, client, atexitReg, modelVars, sessVars>>

Quit == QuitTurn /\ UNCHANGED pureVars

\* /new: create_session(), the same function main calls.
NewTurn ==
    /\ pc = "prompt"
    /\ create_session("new", "prompt")
    /\ msg' = NoMsg
    /\ out' = <<>>
    /\ UNCHANGED <<startVars, client, procVars, atexitReg, modelVars>>

New == NewTurn /\ UNCHANGED pureVars

\* /history: show_history()
HistoryTurn ==
    /\ pc = "prompt"
    /\ \E resp \in MainMessageResponses :
        LET r == show_history(resp) IN
        /\ last' = Op("history", IF resp.ok THEN "ok" ELSE "fail", r.note)
        /\ IF r.raised
           THEN Leave(1, "unhandled", "AttributeError")
           ELSE pc' = "prompt" /\ UNCHANGED exitVars
    /\ msg' = NoMsg
    /\ out' = <<>>
    /\ UNCHANGED <<startVars, client, procVars, atexitReg, modelVars, sessVars>>

History == HistoryTurn /\ UNCHANGED pureVars

\* /sessions: list_sessions()
SessionsTurn ==
    /\ pc = "prompt"
    /\ \E ok \in BOOLEAN :
        Stay(Op("sessions", IF ok THEN "ok" ELSE "fail",
                IF ok THEN "sessions" ELSE "error"))
    /\ UNCHANGED <<startVars, client, procVars, atexitReg, modelVars, sessVars>>

Sessions == SessionsTurn /\ UNCHANGED pureVars

\* /models: show_models()
ModelsTurn ==
    /\ pc = "prompt"
    /\ \E resp \in MainProviderResponses :
        /\ catalog' = resp
        /\ Stay(Op("models", IF resp.ok THEN "ok" ELSE "fail",
                   IF resp.ok THEN "models" ELSE "error"))
    /\ UNCHANGED <<startVars, client, procVars, atexitReg, provider_id,
                   model_id, sessVars>>

Models == ModelsTurn /\ UNCHANGED pureVars

\* "/model <spec>": switch_model(spec), the spec drawn from specs and the
\* providers response from resps.
ModelTurn(specs, resps) ==
    /\ pc = "prompt"
    /\ \E spec \in specs, resp \in resps :
        LET r == switch_model(spec, resp, provider_id, model_id) IN
        /\ catalog' = resp
        /\ provider_id' = r.provider
        /\ model_id' = r.model
        /\ Stay(Op("model", IF resp.ok THEN "ok" ELSE "fail", r.note))
    /\ UNCHANGED <<startVars, client, procVars, atexitReg, sessVars>>

\* A /model command typed at the prompt of the whole program.
ModelCommand(specs, resps) == ModelTurn(specs, resps) /\ UNCHANGED pureVars

Model == ModelCommand(MainSpecs, MainProviderResponses)

\* "/model" alone: the current pair and the usage line.
ModelShowTurn ==
    /\ pc = "prompt"
    /\ Stay(Op("model_show", "none", "current"))
    /\ UNCHANGED <<startVars, client, procVars, atexitReg, modelVars, sessVars>>

ModelShow == ModelShowTurn /\ UNCHANGED pureVars

\* /abort: client.session.abort(session_id)
AbortTurn ==
    /\ pc = "prompt"
    /\ \E ok \in BOOLEAN :
        Stay([Op("abort", IF ok THEN "ok" ELSE "fail",
                 IF ok THEN "aborted" ELSE "abort_failed") EXCEPT
                 !.aborts = 1, !.sid = session_id])
    /\ UNCHANGED <<startVars, client, procVars, atexitReg, modelVars, sessVars>>

Abort == AbortTurn /\ UNCHANGED pureVars

\* /help: show_help()
HelpTurn ==
    /\ pc = "prompt"
    /\ Stay(Op("help", "none", "commands"))
    /\ UNCHANGED <<startVars, client, procVars, atexitReg, modelVars, sessVars>>

Help == HelpTurn /\ UNCHANGED pureVars

\* Any other line that starts with "/".
UnknownTurn ==
    /\ pc = "prompt"
    /\ Stay(Op("unknown", "none", "unknown_command"))
    /\ UNCHANGED <<startVars, client, procVars, atexitReg, modelVars, sessVars>>

Unknown == UnknownTurn /\ UNCHANGED pureVars

\* A line that is empty once stripped: "continue".
EmptyLineTurn ==
    /\ pc = "prompt"
    /\ Stay(Op("empty", "none", "none"))
    /\ UNCHANGED <<startVars, client, procVars, atexitReg, modelVars, sessVars>>

EmptyLine == EmptyLineTurn /\ UNCHANGED pureVars

\* A KeyboardInterrupt while a command waits for its remote call: "except
\* Exception" does not catch it, and repl catches only around console.input.
CommandInterrupted ==
    /\ pc = "prompt"
    /\ \E op \in {"new", "history", "sessions", "models", "model", "abort"} :
        last' = IF op = "abort"
                THEN [Op(op, "intr", "none") EXCEPT !.aborts = 1, !.sid = session_id]
                ELSE Op(op, "intr", "none")
    /\ Leave(130, "unhandled", "KeyboardInterrupt")
    /\ msg' = NoMsg
    /\ out' = <<>>
    /\ UNCHANGED <<pureVars, startVars, client, procVars, atexitReg, modelVars, sessVars>>

\* EOFError or KeyboardInterrupt at console.input: repl breaks out of its
\* loop and main calls cleanup_opencode() and returns.
EndOfInput ==
    /\ pc = "prompt"
    /\ \E o \in CleanupOutcomes :
        /\ CallCleanup(o)
        /\ IF CleanupRaises(o)
           THEN Leave(1, "repl_end", "OSError")
           ELSE Leave(0, "repl_end", "none")
    /\ last' = Op("eof", "none", "goodbye")
    /\ msg' = NoMsg
    /\ out' = <<>>
    /\ UNCHANGED <<pureVars, startVars, client, atexitReg, modelVars, sessVars>>

-----------------------------------------------------------------------------
(* The routing of an input line (repl and handle_command), as a function   *)
(* of the line.  Characters are the letters of both cases, "/" and " ".    *)

Uppers == <<"A", "B", "C", "D", "E", "F", "G", "H", "I", "J", "K", "L", "M",
            "N", "O", "P", "Q", "R", "S", "T", "U", "V", "W", "X", "Y", "Z">>
Lowers == <<"a", "b", "c", "d", "e", "f", "g", "h", "i", "j", "k", "l", "m",
            "n", "o", "p", "q", "r", "s", "t", "u", "v", "w", "x", "y", "z">>

\* Mutant of lower: the command is compared as it was typed.
lower_missing(s) == s

\* s.lower()
lower(s) ==
    [i \in 1..Len(s) |->
        IF \E j \in 1..Len(Uppers) : Uppers[j] = s[i]
        THEN Lowers[CHOOSE j \in 1..Len(Uppers) : Uppers[j] = s[i]]
        ELSE s[i]]

\* s.strip()
strip(s) ==
    LET I == {i \in 1..Len(s) : s[i] # " "} IN
    IF I = {} THEN <<>>
    ELSE SubSeq(s, CHOOSE i \in I : \A h \in I : i <= h,
                   CHOOSE i \in I : \A h \in I : h <= i)

\* s.startswith(p)
startswith(s, p) == Len(s) >= Len(p) /\ SubSeq(s, 1, Len(p)) = p

\* The literals handle_command compares the command with.
KwQuit == <<"/", "q", "u", "i", "t">>
KwExit == <<"/", "e", "x", "i", "t">>
KwNew == <<"/", "n", "e", "w">>
KwHistory == <<"/", "h", "i", "s", "t", "o", "r", "y">>
KwSessions == <<"/", "s", "e", "s", "s", "i", "o", "n", "s">>
KwModels == <<"/", "m", "o", "d", "e", "l", "s">>
KwModel == <<"/", "m", "o", "d", "e", "l">>
KwAbort == <<"/", "a", "b", "o", "r", "t">>
KwHelp == <<"/", "h", "e", "l", "p">>

\* Where a line went: the handler and the string it was given.
Routed(handler, s) == [handler |-> handler, arg |-> s]

NotRouted == Routed("none", <<>>)

\* handle_command(cmd): the branch taken.  The unknown-command message shows
\* the lower-cased command; switch_model gets raw[7:].strip().
handle_command(text) ==
    LET raw == strip(text)
        cmd == lower(raw)
    IN  IF cmd \in {KwQuit, KwExit} THEN Routed("quit", <<>>)
        ELSE IF cmd = KwNew THEN Routed("create_session", <<>>)
        ELSE IF cmd = KwHistory THEN Routed("show_history", <<>>)
        ELSE IF cmd = KwSessions THEN Routed("list_sessions", <<>>)
        ELSE IF cmd = KwModels THEN Routed("show_models", <<>>)
        ELSE IF startswith(cmd, KwModel \o <<" ">>)
        THEN Routed("switch_model", strip(SubSeq(raw, 8, Len(raw))))
        ELSE IF cmd = KwModel THEN Routed("model_show", <<>>)
        ELSE IF cmd = KwAbort THEN Routed("abort", <<>>)
        ELSE IF cmd = KwHelp THEN Routed("show_help", <<>>)
        ELSE Routed("unknown", cmd)

\* One turn of the loop of repl on the line input returned by console.input.
repl(input) ==
    LET text == strip(input) IN
    IF text = <<>> THEN Routed("continue", <<>>)
    ELSE IF startswith(text, <<"/">>) THEN handle_command(text)
    ELSE Routed("send_message", text)

\* The lines the user types.
MaxPad == 1          \* blanks before and after the text of a line

Pads == {[i \in 1..n |-> " "] : n \in 0..MaxPad}

\* The upper-case form of a letter, the character itself otherwise.
UpperOf(c) ==
    IF \E j \in 1..Len(Lowers) : Lowers[j] = c
    THEN Uppers[CHOOSE j \in 1..Len(Lowers) : Lowers[j] = c]
    ELSE c

\* Every upper/lower-case spelling of k.
Spellings(k) ==
    {[i \in 1..Len(k) |-> IF i \in S THEN UpperOf(k[i]) ELSE k[i]] :
        S \in SUBSET (1..Len(k))}

Keywords == {KwQuit, KwExit, KwNew, KwHistory, KwSessions, KwModels, KwModel,
             KwAbort, KwHelp}

ModelArgs ==
    { <<"A", "b">>, <<"a", "/", "B">>, <<"Q", " ", "q">>, <<" ", "X">>,
      <<"b", "/", "a">> }

PlainTexts ==
    { <<"h", "i">>, <<"Q", "U", "I", "T">>, <<"q", "u", "i", "t">>,
      <<"H", "i", " ", "/", "q", "u", "i", "t">>, <<"m", "o", "d", "e", "l", " ", "A">> }

OtherSlashTexts ==
    { <<"/">>, <<"/", "Q">>, <<"/", "q", "u", "i", "t", "s">>,
      <<"/", "/", "q", "u", "i", "t">>, <<"/", "N", "e", "w", " ", "x">> }

Texts ==
    UNION {Spellings(k) : k \in Keywords}
    \cup {k \o <<" ">> \o a : k \in Spellings(KwModel), a \in ModelArgs}
    \cup PlainTexts \cup OtherSlashTexts \cup {<<>>}

Lines == {l \o t \o r : l \in Pads, t \in Texts, r \in Pads}

-----------------------------------------------------------------------------
(* Truncation in render_tool and render_reasoning, as functions of the     *)
(* string to print.                                                        *)

\* len(formatted) > 300, len(output) <= 500, len(text) <= 300
InputLimit == 300
OutputLimit == 500
ReasoningLimit == 300

\* "..."
Ellipsis == <<".", ".", ".">>

\* Mutant of Truncate: "<" where the code has "<=".
TruncateAtLimit(s, L) == IF Len(s) < L THEN s ELSE SubSeq(s, 1, L) \o Ellipsis

\* s if len(s) <= L else s[:L] + "..."
Truncate(s, L) == IF Len(s) <= L THEN s ELSE SubSeq(s, 1, L) \o Ellipsis

\* A string under test: [field, text], field naming the place it is printed:
\* "input" (formatted, the string form of state.input), "output"
\* (state.output) or "reasoning" (part.text of a reasoning part).
NoPayload == [field |-> "none", text |-> <<>>]

\* Nothing was printed for the field.
NotRendered == <<"None">>

\* The text printed for a payload: nothing for an empty string ("if
\* input_data", "if output", "if text"), else the string cut at its limit.
RenderField(p) ==
    IF p.text = <<>> THEN NotRendered
    ELSE IF p.field = "input" THEN Truncate(p.text, InputLimit)
    ELSE IF p.field = "output" THEN Truncate(p.text, OutputLimit)
    ELSE Truncate(p.text, ReasoningLimit)

MaxTextLen == 502    \* characters of a string to print

Fields == {"input", "output", "reasoning"}

\* The strings under test: every length up to MaxTextLen, of letters or of
\* dots (a string that ends like the ellipsis).
Payloads ==
    {[field |-> f, text |-> [i \in 1..n |-> c]] :
        f \in Fields, n \in 0..MaxTextLen, c \in {"x", "."}}

-----------------------------------------------------------------------------
(* Specifications                                                          *)

\* The state after the module is loaded (lines 22-30), in an environment
\* whose reachable endpoints are one of the sets of R.
InitIn(R) ==
    /\ pc = "discover"
    /\ reach \in R
    /\ cand = 1
    /\ probes = <<>>
    /\ found = NoClient
    /\ client = NoClient
    /\ oc_process = "None"
    /\ procAlive = FALSE
    /\ atexitReg = FALSE
    /\ spawns = 0
    /\ pollI = 0
    /\ pollLog = <<>>
    /\ cleanupCalls = 0
    /\ termReqs = 0
    /\ killReqs = 0
    /\ exitCode = Running
    /\ exitCause = "none"
    /\ uncaught = "none"
    /\ provider_id = None
    /\ model_id = None
    /\ session_id = NoSession
    /\ nextSid = 0
    /\ prior = NoMsg
    /\ catalog = FetchFailed
    /\ last = NoOp
    /\ msg = NoMsg
    /\ out = <<>>
    /\ arg = <<>>
    /\ pending = FetchFailed
    /\ resolved = NotResolved
    /\ line = <<>>
    /\ routed = NotRouted
    /\ payload = NoPayload
    /\ rendered = NotRendered

Init == InitIn(MainReach)

Startup == Probe \/ Spawn \/ Poll \/ PollTimeout \/ Validate \/ CreateFirst

Command ==
    \/ Quit \/ New \/ History \/ Sessions \/ Models \/ Model \/ ModelShow
    \/ Abort \/ Help \/ Unknown

Next == Startup \/ Command \/ Send \/ EmptyLine \/ CommandInterrupted
        \/ EndOfInput \/ AtExit

\* The whole program.
Spec == Init /\ [][Next]_vars

\* The start of the program up to the first prompt, in every environment.
InitStartup == InitIn(SUBSET Endpoints)

NextStartup == Startup \/ AtExit

SpecStartup == InitStartup /\ [][NextStartup]_vars

\* The model registry: a client that found a server, and every /model
\* command over every catalog.
InitModel == InitIn({{BaseUrl}})

ModelAll == ModelCommand(AllSpecs, AllProviderResponses)

NextModel == Probe \/ Validate \/ CreateFirst \/ ModelAll

SpecModel == InitModel /\ [][NextModel]_vars

\* switch_model under test: the client sits at its first prompt (it found a
\* server at the configured endpoint, could not fetch the catalog at startup
\* and created session 1); the user types "/model <arg>" and the service
\* will answer the providers call with pending.
InitResolve ==
    /\ pc = "prompt"
    /\ reach = {BaseUrl}
    /\ cand = 1
    /\ probes = <<BaseUrl>>
    /\ found = BaseUrl
    /\ client = BaseUrl
    /\ oc_process = "None"
    /\ procAlive = FALSE
    /\ atexitReg = FALSE
    /\ spawns = 0
    /\ pollI = 0
    /\ pollLog = <<>>
    /\ cleanupCalls = 0
    /\ termReqs = 0
    /\ killReqs = 0
    /\ exitCode = Running
    /\ exitCause = "none"
    /\ uncaught = "none"
    /\ provider_id = DEFAULT_PROVIDER
    /\ model_id = DEFAULT_MODEL
    /\ session_id = 1
    /\ nextSid = 1
    /\ prior = NoMsg
    /\ catalog = FetchFailed
    /\ last = Op("create", "ok", "session")
    /\ msg = NoMsg
    /\ out = <<>>
    /\ arg \in AllSpecs
    /\ pending \in AllProviderResponses
    /\ resolved = NotResolved
    /\ line = <<>>
    /\ routed = NotRouted
    /\ payload = NoPayload
    /\ rendered = NotRendered

\* switch_model(arg) answered by pending; new_provider and new_model as
\* lines 485-498 leave them are kept in resolved.
ResolveStep ==
    /\ pc = "prompt"
    /\ arg # <<>>
    /\ LET r == switch_model(arg, pending, provider_id, model_id) IN
       /\ catalog' = pending
       /\ provider_id' = r.provider
       /\ model_id' = r.model
       /\ resolved' = IF pending.ok THEN Resolve(arg, pending.providers)
                      ELSE NotResolved
       /\ Stay(Op("model", IF pending.ok THEN "ok" ELSE "fail", r.note))
    /\ UNCHANGED <<arg, pending, line, routed, payload, rendered, startVars,
                   client, procVars, atexitReg, sessVars>>

SpecResolve == InitResolve /\ [][ResolveStep]_vars

\* The client at its first prompt: it found a server at the configured
\* endpoint, could not fetch the catalog at startup and created session 1.
FirstPrompt ==
    /\ pc = "prompt"
    /\ reach = {BaseUrl}
    /\ cand = 1
    /\ probes = <<BaseUrl>>
    /\ found = BaseUrl
    /\ client = BaseUrl
    /\ oc_process = "None"
    /\ procAlive = FALSE
    /\ atexitReg = FALSE
    /\ spawns = 0
    /\ pollI = 0
    /\ pollLog = <<>>
    /\ cleanupCalls = 0
    /\ termReqs = 0
    /\ killReqs = 0
    /\ exitCode = Running
    /\ exitCause = "none"
    /\ uncaught = "none"
    /\ provider_id = DEFAULT_PROVIDER
    /\ model_id = DEFAULT_MODEL
    /\ session_id = 1
    /\ nextSid = 1
    /\ prior = NoMsg
    /\ catalog = FetchFailed
    /\ last = Op("create", "ok", "session")
    /\ msg = NoMsg
    /\ out = <<>>
    /\ arg = <<>>
    /\ pending = FetchFailed
    /\ resolved = NotResolved

\* repl under test: console.input returns line.
InitDispatch ==
    /\ FirstPrompt
    /\ line \in Lines
    /\ routed = NotRouted
    /\ payload = NoPayload
    /\ rendered = NotRendered

\* The handler a routed line runs, with everything it does.
RunHandler(r) ==
    CASE r.handler = "continue" -> EmptyLineTurn
      [] r.handler = "send_message" -> SendTurn
      [] r.handler = "quit" -> QuitTurn
      [] r.handler = "create_session" -> NewTurn
      [] r.handler = "show_history" -> HistoryTurn
      [] r.handler = "list_sessions" -> SessionsTurn
      [] r.handler = "show_models" -> ModelsTurn
      [] r.handler = "switch_model" -> ModelTurn({r.arg}, MainProviderResponses)
      [] r.handler = "model_show" -> ModelShowTurn
      [] r.handler = "abort" -> AbortTurn
      [] r.handler = "show_help" -> HelpTurn
      [] OTHER -> UnknownTurn

\* One turn of the loop of repl: console.input returns line, the line is
\* routed and the handler it is routed to runs to its end.
DispatchStep ==
    /\ pc = "prompt"
    /\ routed' = repl(line)
    /\ RunHandler(repl(line))
    /\ UNCHANGED <<arg, pending, resolved, line, payload, rendered>>

\* The turns of the loop on the line, and the end of the process after a
\* turn that left the loop.
NextDispatch == DispatchStep \/ AtExit

SpecDispatch == InitDispatch /\ [][NextDispatch]_vars

\* A renderer under test: it is given payload.
InitRender ==
    /\ FirstPrompt
    /\ line = <<>>
    /\ routed = NotRouted
    /\ payload \in Payloads
    /\ rendered = NotRendered

\* The renderer prints the payload.
RenderStep ==
    /\ pc = "prompt"
    /\ payload # NoPayload
    /\ rendered' = RenderField(payload)
    /\ UNCHANGED <<pc, startVars, client, procVars, atexitReg, exitVars,
                   modelVars, sessVars, last, showVars, arg, pending, resolved,
                   line, routed, payload>>

SpecRender == InitRender /\ [][RenderStep]_vars

-----------------------------------------------------------------------------
(* Properties                                                              *)

\* C1.  Discovery precedence: find_opencode_port probes the candidates in the
\* fixed order (configured endpoint, then 54321, 4096, 3000, 8080), each at
\* most once, and never probes past a candidate that answered; once it has
\* returned, it returned the first reachable candidate of that order, and
\* it returned None exactly when no candidate is reachable.
C1_DiscoveryPrecedence ==
    LET order == <<BaseUrl, 54321, 4096, 3000, 8080>>
        n == Len(probes)
        R == {i \in 1..5 : order[i] \in reach}
    IN  /\ n <= 5
        /\ \A i \in 1..n : probes[i] = order[i]
        /\ \A i \in 1..(n - 1) : order[i] \notin reach
        /\ pc # "discover" =>
              /\ (found = NoClient) <=> (R = {})
              /\ R = {} => n = 5
              /\ R # {} => /\ n \in R
                           /\ \A i \in R : n <= i
                           /\ found = order[n]

\* A later candidate is reachable too, and the earlier reachable one was
\* returned without the later one being probed.
C1_Witness ==
    /\ pc = "validate"
    /\ found = 4096
    /\ 8080 \in reach
    /\ BaseUrl \notin reach
    /\ Len(probes) = 3

\* C2.  Health-poll bound, as claimed: when the health probe never succeeds,
\* start_opencode fails after exactly 30 probes, each preceded by one sleep,
\* with exit status 1, and cleanup_opencode is invoked exactly once on that
\* path, up to the end of the process.
C2_CleanupOnceOnPath ==
    exitCause = "health_timeout" =>
        /\ Len(pollLog) = 2 * 30
        /\ \A i \in 1..30 : pollLog[2 * i - 1] = "sleep" /\ pollLog[2 * i] = "probe"
        /\ exitCode = 1
        /\ cleanupCalls = 1

\* C2, amended.  When the health probe never succeeds, start_opencode fails
\* after exactly 30 probes, each preceded by one sleep, with exit status 1;
\* it has invoked cleanup_opencode exactly once when it exits, and the exit
\* hook it registered invokes cleanup_opencode once more: exactly twice when
\* the process has ended.
C2_HealthPollBound ==
    exitCause = "health_timeout" =>
        /\ Len(pollLog) = 2 * 30
        /\ \A i \in 1..30 : pollLog[2 * i - 1] = "sleep" /\ pollLog[2 * i] = "probe"
        /\ exitCode = 1
        /\ pc \in {"atexit", "done"}
        /\ pc = "atexit" => (cleanupCalls = 1 /\ termReqs = 1)
        /\ pc = "done" => (cleanupCalls = 2 /\ termReqs \in {1, 2})

\* The process has ended after start_opencode gave up: the first cleanup
\* released the server, the exit hook ran cleanup a second time.
C2_Witness ==
    /\ pc = "done"
    /\ exitCause = "health_timeout"
    /\ pollI = 30
    /\ cleanupCalls = 2
    /\ termReqs = 1
    /\ oc_process = "None"

\* C3.  Idempotent cleanup: every invocation of cleanup_opencode returns
\* without raising and ends with no process owned; invoked with no process
\* owned it sends no terminate or kill request and changes nothing; invoked
\* on an owned process it sends one terminate request and at most one kill.
C3_CleanupIdempotent ==
    [][cleanupCalls' # cleanupCalls =>
          /\ oc_process' = "None"
          /\ uncaught = "none" => uncaught' # "OSError"
          /\ oc_process = "None" =>
                /\ termReqs' = termReqs
                /\ killReqs' = killReqs
                /\ procAlive' = procAlive
          /\ oc_process # "None" =>
                /\ termReqs' = termReqs + 1
                /\ killReqs' <= killReqs + 1]_vars

\* C4.  Cleanup on every exit path: when the client process has ended and it
\* had spawned a server, cleanup has run, the server has been asked to
\* terminate, and the server is not left owned and running.
C4_CleanupOnEveryExit ==
    (pc = "done" /\ atexitReg) =>
        /\ cleanupCalls >= 1
        /\ termReqs >= 1
        /\ ~(oc_process # "None" /\ procAlive)

\* C5.  Interrupt during send: a send that caught a KeyboardInterrupt has
\* made exactly one abort call, then exactly one display_response call, and
\* has returned to the prompt without raising.
C5_InterruptDuringSend ==
    (last.op = "send" /\ last.intr) =>
        /\ last.aborts = 1
        /\ last.renders = (IF last.rpc = "ok" THEN 2 ELSE 1)
        /\ pc = "prompt"
        /\ uncaught = "none"

\* The slash-commands that are neither /quit nor /exit.
OtherCommands ==
    {"new", "history", "sessions", "models", "model", "model_show", "abort",
     "help", "unknown"}

\* C6.  Command errors stay inside the loop: after any slash-command other
\* than /quit and /exit (none of them cut by an interrupt) the client is back
\* at the prompt, a failed remote call has been reported, and a client that
\* ended through /quit, /exit or the end of input has invoked cleanup.
C6_CommandErrorsContained ==
    /\ (last.op \in OtherCommands /\ last.rpc # "intr") =>
          /\ pc = "prompt"
          /\ uncaught = "none"
          /\ last.rpc = "fail" => last.note \in {"error", "abort_failed",
                                                "error_creating_session"}
    /\ exitCause \in {"quit", "repl_end"} => cleanupCalls >= 1

\* C7.  Failure of a send: a send makes one chat call and no retry, reports
\* a failed chat call, leaves the session id and the active pair as they
\* were, and returns to the prompt: no send ends the REPL.
C7_SendFailureContained ==
    [][(pc = "prompt" /\ last'.op = "send") =>
          /\ pc' = "prompt"
          /\ uncaught' = "none"
          /\ last'.chats = 1
          /\ last'.rpc = "fail" =>
                last'.note \in {"lost_connection", "api_error", "error"}
          /\ session_id' = session_id
          /\ provider_id' = provider_id
          /\ model_id' = model_id]_vars

\* C8.  Atomic switch: a step taken at the prompt either keeps provider_id
\* and model_id both, or is a /model command that reports the switch and
\* leaves a pair whose provider is in the catalog just fetched and whose
\* model is under that provider; the two are set or unset together.
C8_AtomicSwitch ==
    /\ []((provider_id = None) <=> (model_id = None))
    /\ [][pc = "prompt" =>
            \/ /\ provider_id' = provider_id
               /\ model_id' = model_id
            \/ /\ last'.op = "model"
               /\ last'.note = "switched"
               /\ catalog'.ok
               /\ \E i \in 1..Len(catalog'.providers) :
                      /\ catalog'.providers[i].id = provider_id'
                      /\ model_id' \in catalog'.providers[i].models]_vars

\* After a switch away from the default pair, a /model command naming a
\* model the provider does not have has left the pair as it was.
C8_Witness ==
    /\ last.op = "model"
    /\ last.note = "model_not_in_provider"
    /\ provider_id = <<"b">>
    /\ model_id = <<"a">>

\* C9.  Model resolution: a spec with a "/" resolves to the text before its
\* first "/" and the text after it, whatever the catalog holds; a bare id
\* resolves to the first provider in catalog order that has it, and that pair
\* becomes active; a bare id no provider has is not found, and the active
\* pair stays the one it was.
C9_ModelResolution ==
    (last.op = "model" /\ catalog.ok) =>
        LET c == catalog.providers
            holders == {i \in 1..Len(c) : arg \in c[i].models}
        IN  IF \E i \in 1..Len(arg) : arg[i] = "/"
            THEN /\ resolved.found
                 /\ resolved.provider \o <<"/">> \o resolved.model = arg
                 /\ \A i \in 1..Len(resolved.provider) : resolved.provider[i] # "/"
            ELSE IF holders = {}
            THEN /\ ~resolved.found
                 /\ last.note = "model_not_found"
                 /\ provider_id = DEFAULT_PROVIDER
                 /\ model_id = DEFAULT_MODEL
            ELSE /\ resolved.found
                 /\ resolved.model = arg
                 /\ \E i \in holders :
                       /\ \A j \in holders : i <= j
                       /\ resolved.provider = c[i].id
                       /\ provider_id = c[i].id
                 /\ model_id = arg

\* The bare id "a" is a model of the second provider only, and the second
\* provider became the active one.
C9_Witness ==
    /\ last.op = "model"
    /\ arg = <<"a">>
    /\ catalog.ok
    /\ Len(catalog.providers) = 2
    /\ <<"a">> \notin catalog.providers[1].models
    /\ <<"a">> \in catalog.providers[2].models
    /\ provider_id = catalog.providers[2].id
    /\ model_id = <<"a">>

\* The block the renderer of each kind prints.
BlockOfKind(kind) ==
    CASE kind = "text" -> "markdown"
      [] kind = "tool" -> "tool_panel"
      [] kind = "step-start" -> "step_started"
      [] kind = "step-finish" -> "step_finished"
      [] kind = "reasoning" -> "thinking_panel"
      [] OTHER -> "kind_line"

\* A part whose renderer prints nothing by design: text or reasoning without
\* text.
Silent(part) == part.kind \in {"text", "reasoning"} /\ part.empty

\* The blocks of the parts from position i on: one per part, in the order of
\* the parts, none for a silent part.
RECURSIVE BlocksFrom(_, _)
BlocksFrom(parts, i) ==
    IF i > Len(parts) THEN <<>>
    ELSE (IF Silent(parts[i]) THEN <<>>
          ELSE <<Block(i, BlockOfKind(parts[i].kind))>>)
         \o BlocksFrom(parts, i + 1)

\* C10.  Part dispatch: the blocks display_response printed for a message
\* are the error block, if the message has an error, followed by one block
\* per part in the order of the parts: no part is printed twice, skipped or
\* out of order (a text or reasoning part without text has no block).
C10_PartsInOrder ==
    msg # NoMsg =>
        out = (IF msg.err THEN <<Block(0, "error_panel")>> ELSE <<>>)
              \o BlocksFrom(msg.parts, 1)

\* C11.  Rendering is isolated per part and never raises: of the message
\* display_response dispatched, every part whose own renderer prints a block
\* has its block printed, whatever the parts before it are, and no send has
\* ended the client with an exception of a renderer.
C11_RenderIsolated ==
    /\ msg # NoMsg =>
          \A i \in 1..Len(msg.parts) :
              Dispatch(msg.parts[i]) \notin {"raise", "nothing"} =>
                  \E k \in 1..Len(out) : out[k].idx = i
    /\ last.op = "send" => uncaught # "AttributeError"

\* The handler each recognized keyword names.
KeywordHandlers ==
    { <<KwQuit, "quit">>, <<KwExit, "quit">>, <<KwNew, "create_session">>,
      <<KwHistory, "show_history">>, <<KwSessions, "list_sessions">>,
      <<KwModels, "show_models">>, <<KwModel, "model_show">>,
      <<KwAbort, "abort">>, <<KwHelp, "show_help">> }

\* s spells k in some mix of upper and lower case.
SpellsKeyword(s, k) ==
    /\ Len(s) = Len(k)
    /\ \A i \in 1..Len(k) :
          \/ s[i] = k[i]
          \/ \E j \in 1..Len(Lowers) : k[i] = Lowers[j] /\ s[i] = Uppers[j]

\* C12.  Command dispatch, t being the line without the blanks around it:
\* when t spells a recognized keyword in any mix of cases, the line goes to
\* the handler of the lower-case keyword; when t spells "/model " followed by
\* an argument, switch_model gets the text after the keyword (without the
\* blanks around it) in its original casing; when t does not start with "/",
\* send_message gets t itself; and a t that starts with "/" is never sent.
C12_CaseInsensitiveDispatch ==
    routed # NotRouted =>
        \E a, b \in 0..Len(line) :
            /\ a + b <= Len(line)
            /\ \A i \in 1..a : line[i] = " "
            /\ \A i \in (Len(line) - b + 1)..Len(line) : line[i] = " "
            /\ LET t == SubSeq(line, a + 1, Len(line) - b) IN
               /\ t # <<>> => (t[1] # " " /\ t[Len(t)] # " ")
               /\ \A kh \in KeywordHandlers :
                     SpellsKeyword(t, kh[1]) => routed = Routed(kh[2], <<>>)
               /\ (Len(t) > 7 /\ SpellsKeyword(SubSeq(t, 1, 7), KwModel \o <<" ">>)) =>
                     /\ routed.handler = "switch_model"
                     /\ \E n \in 7..(Len(t) - 1) :
                           /\ \A i \in 8..n : t[i] = " "
                           /\ t[n + 1] # " "
                           /\ routed.arg = SubSeq(t, n + 1, Len(t))
               /\ (t # <<>> /\ t[1] # "/") => routed = Routed("send_message", t)
               /\ (t # <<>> /\ t[1] = "/") => routed.handler # "send_message"

\* "/MoDeL a/B" typed in mixed case went to switch_model with "a/B".
C12_Witness ==
    /\ routed = Routed("switch_model", <<"a", "/", "B">>)
    /\ SubSeq(line, 1, 6) = <<"/", "M", "o", "D", "e", "L">>

\* C13.  Exit codes: a client that ends through /quit, /exit or the end of
\* input ends with status 0; a client that ends because the executable is
\* missing, the server did not become healthy in time or the service
\* rejected the creation of a session ends with status 1; and status 0 is
\* the status of no other ending.
C13_ExitCodes ==
    pc \in {"atexit", "done"} =>
        /\ exitCause \in {"quit", "repl_end"} => exitCode = 0
        /\ exitCause \in {"no_executable", "health_timeout", "session_create"} =>
              exitCode = 1
        /\ exitCode = 0 => exitCause \in {"quit", "repl_end"}

\* The limit of each field.
LimitOf(field) == IF field = "output" THEN 500 ELSE 300

\* C14.  Truncation laws: a string printed as tool input (limit 300), tool
\* output (limit 500) or reasoning text (limit 300) is printed unmodified
\* when it has at most limit characters, and as its first limit characters
\* followed by "..." when it has more.
C14_TruncationLaws ==
    rendered # NotRendered =>
        LET L == LimitOf(payload.field)
            s == payload.text
        IN  IF Len(s) <= L
            THEN rendered = s
            ELSE /\ Len(rendered) = L + 3
                 /\ \A i \in 1..L : rendered[i] = s[i]
                 /\ \A i \in (L + 1)..(L + 3) : rendered[i] = "."

\* Tool output of 501 letters was printed as 500 letters and the ellipsis.
C14_Witness ==
    /\ payload.field = "output"
    /\ Len(payload.text) = 501
    /\ payload.text[501] = "x"
    /\ Len(rendered) = 503
    /\ rendered[500] = "x"
    /\ rendered[501] = "."

\* C15.  The message a send renders is the message of its own chat turn:
\* whenever a send (completed or interrupted) has passed an assistant message
\* to the renderers, that message was produced by the turn of this send, not
\* by an earlier turn of the session.
C15_RendersOwnTurn ==
    (last.op = "send" /\ msg # NoMsg) => msg.turn = "this"

\* C16.  Startup validation is never fatal: when ensure_opencode has
\* returned, the client is running, the active pair is the hardcoded default
\* pair, and the catalog only decided the message ("using" when it holds the
\* pair, a warning when it does not, "could not verify" when it could not be
\* fetched); and at every prompt provider_id and model_id are both set.
C16_ValidationNeverFatal ==
    /\ last.op = "validate" =>
          /\ pc = "create"
          /\ exitCode = Running
          /\ provider_id = <<"a">>
          /\ model_id = <<"b">>
          /\ last.note = (IF ~catalog.ok THEN "could_not_verify"
                          ELSE IF \E i \in 1..Len(catalog.providers) :
                                     /\ catalog.providers[i].id = <<"a">>
                                     /\ <<"b">> \in catalog.providers[i].models
                               THEN "using" ELSE "warning")
    /\ pc = "prompt" => (provider_id # None /\ model_id # None)

\* The catalog was fetched and does not hold the default pair; the client
\* goes on with it.
C16_Witness ==
    /\ pc = "create"
    /\ last.op = "validate"
    /\ last.note = "warning"
    /\ provider_id = <<"a">>
    /\ model_id = <<"b">>

\* C17.  One current session: at every prompt session_id is the id of a
\* session the service created for this client; a /new that the service
\* answers makes the newly created id, different from the one before, the
\* current one; and no other step taken at the prompt changes session_id.
C17_OneCurrentSession ==
    /\ [](pc = "prompt" => session_id \in 1..nextSid)
    /\ [][pc = "prompt" =>
            /\ (last'.op = "new" /\ last'.rpc = "ok") =>
                  /\ nextSid' = nextSid + 1
                  /\ session_id' = nextSid'
                  /\ session_id' # session_id
            /\ ~(last'.op = "new" /\ last'.rpc = "ok") =>
                  session_id' = session_id]_vars

\* /new has replaced the first session by the second.
C17_Witness ==
    /\ pc = "prompt"
    /\ last.op = "new"
    /\ session_id = 2
    /\ nextSid = 2

\* C18.  At most one server process: the client spawns at most one server
\* process and owns a process only if it spawned one; a process is spawned
\* only after each of the five candidates was probed and none is reachable;
\* and when discovery found a server, none is spawned.
C18_AtMostOneSpawn ==
    /\ spawns <= 1
    /\ oc_process # "None" => spawns = 1
    /\ spawns = 1 =>
          /\ probes = <<BaseUrl, 54321, 4096, 3000, 8080>>
          /\ \A i \in 1..Len(probes) : probes[i] \notin reach
          /\ found = NoClient
    /\ (pc \notin {"discover", "start"} /\ reach \cap {BaseUrl, 54321, 4096, 3000, 8080} # {}) =>
          /\ found \in reach
          /\ spawns = 0
          /\ oc_process = "None"

\* No candidate answered, the server was spawned and became healthy.
C18_Witness ==
    /\ pc = "validate"
    /\ spawns = 1
    /\ oc_process = "proc"
    /\ client = 54321
    /\ Len(probes) = 5

\* C19.  No foreign server is terminated: a client that connected to a
\* server already running never issues a terminate or kill request, whatever
\* it does afterwards (commands, /quit, /exit, end of input, exit hooks);
\* terminate and kill requests are issued only by a client that spawned its
\* server, and no exit hook is registered otherwise.
C19_NoForeignTermination ==
    /\ found # NoClient => (termReqs = 0 /\ killReqs = 0 /\ ~atexitReg)
    /\ (termReqs > 0 \/ killReqs > 0) => (spawns = 1 /\ found = NoClient)

\* A client that found a running server has quit: cleanup ran and asked
\* nothing of any process.
C19_Witness ==
    /\ pc = "done"
    /\ found # NoClient
    /\ exitCause = "quit"
    /\ cleanupCalls = 1
    /\ termReqs = 0

\* C20.  A send uses the state current at dispatch: the chat call of a send
\* (and the abort call of its interrupt handler) and the abort call of /abort
\* name the session that is current when the line is dispatched, which is
\* the session created last and never a replaced one, and the chat call
\* carries the pair that is active then: the pair a /model command just
\* switched to, or the pair it left in place when it failed.
C20_SendUsesCurrentState ==
    /\ [][(pc = "prompt" /\ last'.op \in {"send", "abort"}) =>
            /\ last'.sid = session_id
            /\ last'.sid = nextSid]_vars
    /\ [][(pc = "prompt" /\ last'.op = "send") =>
            /\ last'.prov = provider_id
            /\ last'.mod = model_id
            /\ (last.op = "model" /\ last.note = "switched") =>
                  \E i \in 1..Len(catalog.providers) :
                      /\ catalog.providers[i].id = last'.prov
                      /\ last'.mod \in catalog.providers[i].models]_vars

\* After /new and a switch to b/a, a send went to session 2 with b/a.
C20_Witness ==
    /\ last.op = "send"
    /\ last.sid = 2
    /\ last.prov = <<"b">>
    /\ last.mod = <<"a">>

====
